---- MODULE Spec2Model ----
(***************************************************************************)
(* Tracker Sync Board: the document store (read / write / normalize), the  *)
(* sync controller (pushState, saveFromWebview, openStateFile,             *)
(* processHumanMessages, seedRoadmap, ensureWorkspaceBinding) of           *)
(* src/src/extension.ts and the dashboard's save path of                   *)
(* src/media/dashboard.js, as one state machine.                           *)
(*                                                                         *)
(* Every async operation of the controller is a "run": a record holding    *)
(* its position (pc), its local variables and a few history fields.  An    *)
(* action is one synchronous stretch of code between two awaits.           *)
(* Timestamps are integers read from the variable clock; an ISO string is  *)
(* modelled by the instant it denotes.  Strings that no code inspects      *)
(* (task title, note, effort) are left out of the task records.            *)
(***************************************************************************)
EXTENDS Integers, Sequences, FiniteSets, TLC

VARIABLES
  folder,    \* vscode.workspace.workspaceFolders?.[0]: a root or None
  store,     \* this.store: the root its TrackerStateStore is bound to, or None
  watcher,   \* this.watcher: the root the watcher it refers to observes, or None
  live,      \* the roots observed by the watchers created and not disposed
  notified,  \* a watcher event is queued and its onChange has not run yet
  files,     \* files[root]: content of <root>/.tracker/state.json
  clock,     \* the wall clock read by new Date() / Date.now()
  viewOpen,  \* this.view is set (resolveWebviewView has run)
  vstate,    \* dashboard.js: the view's local `state`
  vlast,     \* history: the payload of the last state message the view received
  vinfo,     \* dashboard.js: the status bar text set by the last info message
  runs,      \* the controller operations in flight
  opsLeft,   \* operations that may still be started (bound)
  extLeft    \* external file changes that may still happen (bound)

vars == <<folder, store, watcher, live, notified, files, clock, viewOpen,
          vstate, vlast, vinfo, runs, opsLeft, extLeft>>

----------------------------------------------------------------------------
(* Bounds *)

MaxClock == 1
MaxOps == 2
MaxExt == 1
MaxRev == 4
MaxMsgs == 4
MaxTasks == 6
MaxClicks == 3

Roots == {"r1", "r2"}
None == "none"
Nil == [nil |-> TRUE]

----------------------------------------------------------------------------
(* Documents *)

SeedTask(id, owner, lane, milestone, priority, now) ==
  [id |-> <<id, 0>>, owner |-> owner, lane |-> lane, status |-> lane,
   milestone |-> milestone, priority |-> priority, createdAt |-> now]

(* Mutant: the two M1 tasks are seeded in lane done. *)
defaultStateM1Done(now) ==
  [revision |-> 1,
   updatedAt |-> now,
   tasks |-> << SeedTask("task-m1-ui-shell", "ai", "done", "M1 Foundation", "p0", now),
                SeedTask("task-m1-devloop", "human", "done", "M1 Foundation", "p1", now),
                SeedTask("task-m2-sync", "ai", "todo", "M2 Collaboration", "p0", now),
                SeedTask("task-m2-aiops", "human", "progress", "M2 Collaboration", "p1", now),
                SeedTask("task-m3-release", "human", "todo", "M3 Release", "p1", now) >>,
   messages |-> << [id |-> <<"msg-start", 0>>, from |-> "ai", to |-> "human",
                    type |-> "note", title |-> <<"Tracker v1 is ready">>,
                    body |-> "Use this board", createdAt |-> now,
                    resolved |-> FALSE] >>]

defaultState(now) ==
  [revision |-> 1,
   updatedAt |-> now,
   tasks |-> << SeedTask("task-m1-ui-shell", "ai", "progress", "M1 Foundation", "p0", now),
                SeedTask("task-m1-devloop", "human", "todo", "M1 Foundation", "p1", now),
                SeedTask("task-m2-sync", "ai", "todo", "M2 Collaboration", "p0", now),
                SeedTask("task-m2-aiops", "human", "progress", "M2 Collaboration", "p1", now),
                SeedTask("task-m3-release", "human", "todo", "M3 Release", "p1", now) >>,
   messages |-> << [id |-> <<"msg-start", 0>>, from |-> "ai", to |-> "human",
                    type |-> "note", title |-> <<"Tracker v1 is ready">>,
                    body |-> "Use this board", createdAt |-> now,
                    resolved |-> FALSE] >>]

(* JavaScript values.  A TrackerState is a record of the four fields.  A    *)
(* value of unknown shape (what JSON.parse returns, what the webview       *)
(* posts) is an object holding any of the four fields, each a tagged       *)
(* value, or a tagged value itself: JNull, a number, a string.  A tagged    *)
(* value carries its typeof (Array.isArray for "array") in ty and, when it  *)
(* is a finite number, a string or an array, what it holds in v.  Array     *)
(* elements are task and message records, or tagged values.                *)
Fields == {"revision", "updatedAt", "tasks", "messages"}

Num(n) == [ty |-> "number", v |-> n]
Str(t) == [ty |-> "string", v |-> t]
Arr(s) == [ty |-> "array", v |-> s]
JNull == [ty |-> "null"]

(* The number JSON.parse returns for a literal beyond the double range, *)
(* such as 1e999: Infinity.                                             *)
JInfinity == [ty |-> "number"]

(* A TrackerState passed where `unknown` is expected. *)
TagOf(f, v) ==
  IF f = "revision" THEN Num(v)
  ELSE IF f = "updatedAt" THEN Str(v)
  ELSE Arr(v)

AsRaw(doc) == [f \in (DOMAIN doc) \cap Fields |-> TagOf(f, doc[f])]

(* value.f is not undefined. *)
HasField(raw, f) == f \in DOMAIN raw

(* typeof x === "number" && Number.isFinite(x) *)
IsFiniteNumber(x) == x.ty = "number" /\ "v" \in DOMAIN x

(* Mutant: messages is left out when the input has no array for it. *)
normalizeKeepsAbsent(raw, now) ==
  LET ok == HasField(raw, "messages") /\ raw.messages.ty = "array"
  IN [f \in IF ok THEN Fields ELSE Fields \ {"messages"} |->
        IF f = "revision"
        THEN IF HasField(raw, "revision") /\ IsFiniteNumber(raw.revision)
             THEN raw.revision.v ELSE 1
        ELSE IF f = "updatedAt"
        THEN IF HasField(raw, "updatedAt") /\ raw.updatedAt.ty = "string"
             THEN raw.updatedAt.v ELSE now
        ELSE IF f = "tasks"
        THEN IF HasField(raw, "tasks") /\ raw.tasks.ty = "array"
             THEN raw.tasks.v ELSE <<>>
        ELSE raw.messages.v]

(* Mutant: the revision is not taken from the input. *)
normalizeResetsRevision(raw, now) ==
  [revision |-> 1,
   updatedAt |-> IF HasField(raw, "updatedAt") /\ raw.updatedAt.ty = "string"
                 THEN raw.updatedAt.v ELSE now,
   tasks |-> IF HasField(raw, "tasks") /\ raw.tasks.ty = "array"
             THEN raw.tasks.v ELSE <<>>,
   messages |-> IF HasField(raw, "messages") /\ raw.messages.ty = "array"
                THEN raw.messages.v ELSE <<>>]

normalize(raw, now) ==
  [revision |-> IF HasField(raw, "revision") /\ IsFiniteNumber(raw.revision)
                THEN raw.revision.v ELSE 1,
   updatedAt |-> IF HasField(raw, "updatedAt") /\ raw.updatedAt.ty = "string"
                 THEN raw.updatedAt.v ELSE now,
   tasks |-> IF HasField(raw, "tasks") /\ raw.tasks.ty = "array"
             THEN raw.tasks.v ELSE <<>>,
   messages |-> IF HasField(raw, "messages") /\ raw.messages.ty = "array"
                THEN raw.messages.v ELSE <<>>]

(* JSON.stringify: a number that is not finite is written as null, at the *)
(* top level of a field and as an array element.                          *)
StringifyValue(x) == IF x = JInfinity THEN JNull ELSE x

Stringify(raw) ==
  [f \in DOMAIN raw |->
     IF raw[f].ty = "array"
     THEN Arr([i \in DOMAIN raw[f].v |-> StringifyValue(raw[f].v[i])])
     ELSE StringifyValue(raw[f])]

(* File contents: no file, bytes that JSON.parse rejects, or JSON text, *)
(* held as the value the text denotes.                                  *)
Missing == [kind |-> "missing"]
Malformed == [kind |-> "malformed"]

Text(raw) == [kind |-> "json", val |-> raw]

(* Mutant: the revision is not serialized. *)
EncodeNoRevision(doc) ==
  Text(Stringify(AsRaw([f \in (DOMAIN doc) \ {"revision"} |-> doc[f]])))

(* encoder.encode(JSON.stringify(normalized, null, 2) + "\n") *)
Encode(doc) == Text(Stringify(AsRaw(doc)))

ParseOk(content) == content.kind = "json"

(* JSON.parse(decoder.decode(bytes)) *)
Parse(content) == content.val

(* The revision a reader of the file obtains. *)
FileRevision(content) == normalize(Parse(content), 0).revision

----------------------------------------------------------------------------
(* TrackerStateStore.write, up to its first await: the document that will  *)
(* be serialized.                                                          *)
(* Mutant: the caller's updatedAt is kept when it has one. *)
StampTrusting(state, now) == normalize(AsRaw(state), now)

(* Mutant: the store counts the write in the revision too. *)
StampAndBump(state, now) ==
  [normalize(AsRaw(state), now) EXCEPT !.updatedAt = now, !.revision = @ + 1]

Stamp(state, now) == [normalize(AsRaw(state), now) EXCEPT !.updatedAt = now]

(* Mutant: the write keeps the tasks of the document the file holds. *)
WrittenOverBase(current, normalized) ==
  IF ParseOk(current)
  THEN Encode([normalized EXCEPT !.tasks = normalize(Parse(current), 0).tasks])
  ELSE Encode(normalized)

(* Mutant: the write keeps the file's revision when that is the higher. *)
WrittenKeepsRevision(current, normalized) ==
  IF ParseOk(current) /\ normalize(Parse(current), 0).revision > normalized.revision
  THEN Encode([normalized EXCEPT !.revision = normalize(Parse(current), 0).revision])
  ELSE Encode(normalized)

(* Mutant: a write whose revision is not above the file's leaves the file. *)
WrittenIfNewer(current, normalized) ==
  IF ParseOk(current) /\ normalize(Parse(current), 0).revision >= normalized.revision
  THEN current
  ELSE Encode(normalized)

(* What writeFile stores: the serialized `normalized`, whatever the file *)
(* holds (`current`).                                                    *)
Written(current, normalized) == Encode(normalized)

(* Mutant: write() hands its argument back. *)
WriteResultIsInput(state, normalized) == state

(* What write() hands back to its caller once writeFile has completed. *)
WriteResult(state, normalized) == normalized

(* What read() hands back after its recovery write. *)
RecoveryResult(created, normalized) == created

----------------------------------------------------------------------------
(* Runs *)

IdleRun ==
  [op |-> "idle", phase |-> "main", pc |-> "done", sroot |-> None,
   doc |-> Nil,      \* the local `state` / `created` / `payload` / `seeded`
   norm |-> Nil,     \* write()'s local `normalized`
   src |-> 0,        \* index in doc.messages of processHumanMessages' `source`
   out |-> "",       \* how the run ended
   \* history, read by the properties only
   snap |-> Nil,     \* the copy the operation works from: what its first
                     \* read() returned, or the view's copy behind a save
   seen |-> Nil,     \* file content the run's first read() found
   rfail |-> FALSE,  \* the run's first read() took the catch branch
   chosen |-> 0,     \* index in snap.messages of the item the operator picked
   at |-> 0,         \* the time the run's own write() call stamped
   rat |-> 0,        \* the time the run's last recovery write stamped
   pre |-> Nil,      \* file content just before the run's own write
   wrote |-> Nil,    \* file content the run's own (non-recovery) write stored
   recov |-> 0,      \* recovery writes the run's read() calls completed
   rseen |-> Nil,    \* file content the read() that recovered had found
   rwrote |-> Nil,   \* file content the run's last recovery write stored
   rret |-> Nil,     \* what read() returned after that recovery write
   threw |-> "",     \* the call that rejected: "read", "write" or "call"
   abandoned |-> FALSE, \* the operator dismissed a prompt of the run
   posted |-> Nil,   \* the message the run posted to the webview
   shown |-> "",     \* the vscode.window message the run showed last
   prompts |-> 0,    \* operator prompts the run has opened
   rroot |-> None,   \* the root whose store the run's first read() was called on
   click |-> Nil]    \* the task control behind a save, the tasks before it,
                     \* and the control behind the save the slot ran before

NewRun(op) == [IdleRun EXCEPT !.op = op, !.pc = "start"]

Free(r) == runs[r].pc = "done"

(* The operations that can be in flight at once are the slots of runs. *)
RunIds == DOMAIN runs

(* The slot a new operation takes: slots are interchangeable, so the free *)
(* one is taken in a fixed order.                                         *)
Slot(r) == Free(r) /\ \A q \in RunIds : q < r => ~Free(q)

Finish(rec, outcome) ==
  [rec EXCEPT !.pc = "done", !.out = outcome, !.norm = Nil]

StateMsg(doc) == [type |-> "state", payload |-> doc]
InfoMsg(text) == [type |-> "info", message |-> text]

NoWorkspaceWarning == "Open a workspace folder to use Tracker Sync Board."
NoWorkspaceSave == "Open a workspace folder to persist tracker state."
InvalidPayload == "Invalid state payload from dashboard."
NonePending == "No unresolved messages from human to AI."
Initialized == "Tracker roadmap initialized."

(* postState / postInfo: `await this.view?.webview.postMessage(m)` and the *)
(* dashboard's message listener, taken as one step.                        *)
ViewAfter(m, open) ==
  /\ vstate' = IF open /\ m # Nil /\ m.type = "state" THEN m.payload ELSE vstate
  /\ vinfo' = IF open /\ m # Nil /\ m.type = "info" THEN m.message ELSE vinfo
  /\ vlast' = IF open /\ m # Nil /\ m.type = "state" THEN m.payload ELSE vlast

----------------------------------------------------------------------------
(* ensureWorkspaceBinding *)

EnsuredStore == folder

EnsuredWatcher ==
  IF folder = None THEN None
  ELSE IF store = folder THEN watcher
  ELSE folder

(* Mutant: the previous watcher is not disposed. *)
EnsuredLiveLeaks == IF folder = None THEN live ELSE live \cup {folder}

(* `this.watcher?.dispose()` ends the watcher this.watcher refers to; the *)
(* watcher created for the folder is live.                               *)
EnsuredLive ==
  IF folder = None THEN live \ {watcher}
  ELSE IF store = folder THEN live
  ELSE (live \ {watcher}) \cup {folder}

(* A created watcher has no event queued; `queued` is the flag before. *)
EnsuredNotified(queued) == IF EnsuredWatcher = watcher THEN queued ELSE FALSE

Ensure(queued) ==
  /\ store' = EnsuredStore
  /\ watcher' = EnsuredWatcher
  /\ live' = EnsuredLive
  /\ notified' = EnsuredNotified(queued)

----------------------------------------------------------------------------
(* Calls into the store *)

(* `this.store.read()` up to `await readFile`, on the store object `s`. *)
CallRead(rec, s) ==
  [rec EXCEPT !.pc = "read", !.sroot = s,
              !.rroot = IF rec.rroot = None THEN s ELSE @]

(* `this.store.write(state)` up to `await createDirectory`; a call on an *)
(* undefined this.store throws a TypeError.                              *)
CallWrite(rec, s, state, now) ==
  IF s = None THEN [Finish(rec, "failed") EXCEPT !.threw = "call"]
  ELSE [rec EXCEPT !.pc = "mkdir", !.sroot = s, !.doc = state,
                   !.norm = Stamp(state, now), !.at = now]

(* pushState: ensureWorkspaceBinding has run, `s` is this.store after it. *)
BeginPush(rec, s) ==
  IF s = None
  THEN [Finish(rec, "advisory") EXCEPT !.posted = InfoMsg(NoWorkspaceWarning),
                                       !.shown = IF rec.op = "seed" THEN Initialized ELSE @]
  ELSE CallRead([rec EXCEPT !.phase = "push"], s)

(* Mutant: resolved messages count as pending. *)
IsPendingAnyState(m) == m.from = "human" /\ m.to = "ai"

IsPending(m) == m.from = "human" /\ m.to = "ai" /\ ~m.resolved

Pending(msgs) == SelectSeq(msgs, IsPending)

(* Mutant: pushState writes what it read back before posting it. *)
AfterReadWritesBack(rec, state, now) ==
  IF rec.phase = "push"
  THEN CallWrite(rec, store, state, now)
  ELSE IF rec.op = "open"
  THEN CallWrite([rec EXCEPT !.snap = state], store, state, now)
  ELSE
    IF Pending(state.messages) = <<>>
    THEN [Finish([rec EXCEPT !.snap = state, !.doc = state], "none")
            EXCEPT !.shown = NonePending]
    ELSE [rec EXCEPT !.pc = "pick", !.doc = state, !.snap = state,
                     !.prompts = @ + 1]

(* The code after `await this.store.read()` returned `state`, up to the *)
(* next await, for each caller of read().                               *)
AfterRead(rec, state, now) ==
  IF rec.phase = "push"
  THEN [Finish(rec, "ok") EXCEPT !.posted = StateMsg(state),
                                 !.shown = IF rec.op = "seed" THEN Initialized ELSE @]
  ELSE IF rec.op = "open"
  THEN CallWrite([rec EXCEPT !.snap = state], store, state, now)
  ELSE \* processHumanMessages
    IF Pending(state.messages) = <<>>
    THEN [Finish([rec EXCEPT !.snap = state, !.doc = state], "none")
            EXCEPT !.shown = NonePending]
    ELSE [rec EXCEPT !.pc = "pick", !.doc = state, !.snap = state,
                     !.prompts = @ + 1]

(* The code after `await this.store.write(...)` returned, for each caller. *)
AfterWrite(rec, s) ==
  IF rec.op = "save"
  THEN [Finish(rec, "ok") EXCEPT !.posted = StateMsg(WriteResult(rec.doc, rec.norm))]
  ELSE IF rec.op = "open"
  THEN Finish(rec, "ok")
  ELSE BeginPush([rec EXCEPT !.norm = Nil], s)

----------------------------------------------------------------------------
(* Initial state: the provider has been constructed, no view is resolved. *)

ExtMsg(n, from, to, resolved) ==
  [id |-> <<"ext", n>>, from |-> from, to |-> to, type |-> "note",
   title |-> <<"ext">>, body |-> "text", createdAt |-> 0, resolved |-> resolved]

(* Documents an external writer (an editor, another process) stores; the *)
(* first carries a timestamp ahead of this machine's clock.               *)
ExtDocFull ==
  [revision |-> 3, updatedAt |-> MaxClock + 1, tasks |-> <<>>,
   messages |-> << ExtMsg(1, "human", "ai", FALSE),
                   ExtMsg(2, "ai", "human", FALSE),
                   ExtMsg(3, "human", "ai", FALSE) >>]

ExtDocPartial ==
  [tasks |-> << [id |-> <<"ext-task", 1>>, owner |-> "human", lane |-> "todo",
                 status |-> "todo", milestone |-> "", priority |-> "p1",
                 createdAt |-> 0] >>,
   messages |-> << ExtMsg(1, "human", "ai", TRUE) >>]

ExternalContents == {Encode(ExtDocFull), Encode(ExtDocPartial)}

InitialView == [revision |-> 1, updatedAt |-> 0, tasks |-> <<>>, messages |-> <<>>]

(* `folders`: what workspaceFolders?.[0] may be at activation; `first`, *)
(* `second`: what the state files of the two roots may hold.           *)
InitBudget(slots, folders, first, second, ops) ==
  /\ folder \in folders
  /\ store = None
  /\ watcher = None
  /\ live = {}
  /\ notified = FALSE
  /\ \E c \in first, d \in second :
       files = [rt \in Roots |-> IF rt = "r1" THEN c ELSE d]
  /\ clock = 0
  /\ viewOpen = FALSE
  /\ vstate = InitialView
  /\ vlast = Nil
  /\ vinfo = ""
  /\ runs = [r \in 1..slots |-> IdleRun]
  /\ opsLeft = ops
  /\ extLeft = MaxExt

InitOf(slots, folders, first, second) ==
  InitBudget(slots, folders, first, second, MaxOps)

InitWith(slots) == InitOf(slots, {"r1"}, {Missing, Encode(ExtDocFull)}, {Missing})

(* One controller operation at a time; the external writer, the clock and *)
(* the I/O outcomes interleave with it at every await.                    *)
Init == InitWith(1)

(* The values a file's JSON text may denote: objects with any of the four *)
(* fields absent, well typed or ill typed, and values that are no object. *)
Absent == [absent |-> TRUE]

RawTask ==
  [id |-> <<"ext-task", 1>>, owner |-> "human", lane |-> "todo",
   status |-> "todo", milestone |-> "", priority |-> "p1", createdAt |-> 0]

RawRevisions == {Absent, Num(1), Num(3), JInfinity, Str(3), JNull}
RawStamps == {Absent, Str(0), Num(0)}
RawTasks == {Absent, Arr(<<>>), Arr(<<RawTask>>), Arr(<<JInfinity, RawTask>>), Str(0)}
RawMessages ==
  {Absent, Arr(<<>>), Arr(<<ExtMsg(1, "human", "ai", FALSE)>>), JNull, [ty |-> "object"]}

RawObject(sel) == [f \in {g \in Fields : sel[g] # Absent} |-> sel[f]]

RawValues ==
  {RawObject([revision |-> a, updatedAt |-> b, tasks |-> c, messages |-> d]) :
     a \in RawRevisions, b \in RawStamps, c \in RawTasks, d \in RawMessages}
  \cup {JNull, Num(3), Str(0), Arr(<<>>)}

(* The store over every such file: reads, and openStateFile's write-back. *)
InitStore ==
  InitOf(1, {"r1"}, {Missing, Malformed} \cup {Text(raw) : raw \in RawValues}, {Missing})

----------------------------------------------------------------------------
(* Environment *)

Tick ==
  /\ clock < MaxClock
  /\ clock' = clock + 1
  /\ UNCHANGED <<folder, store, watcher, live, notified, files, viewOpen, vstate, vlast,
                 vinfo, runs, opsLeft, extLeft>>

(* Mutant: no watcher delivers an event. *)
RaisedNever(rt) == notified

(* A change of the file of root rt raises an event on the watcher of rt. *)
Raised(rt) == notified \/ rt \in live

ExternalChange(content) ==
  /\ extLeft > 0
  /\ folder # None
  /\ files[folder] # content
  /\ files' = [files EXCEPT ![folder] = content]
  /\ notified' = Raised(folder)
  /\ extLeft' = extLeft - 1
  /\ UNCHANGED <<folder, store, watcher, live, clock, viewOpen, vstate, vlast, vinfo,
                 runs, opsLeft>>

ExternalWrite == \E c \in ExternalContents : ExternalChange(c)

ExternalDelete == ExternalChange(Missing)

ExternalCorrupt == ExternalChange(Malformed)

(* The first workspace folder changes: another root, or none.  The *)
(* provider listens to no such event; the next binding check sees it. *)
workspaceFoldersChange ==
  /\ extLeft > 0
  /\ \E f \in (Roots \cup {None}) \ {folder} : folder' = f
  /\ extLeft' = extLeft - 1
  /\ UNCHANGED <<store, watcher, live, notified, files, clock, viewOpen,
                 vstate, vlast, vinfo, runs, opsLeft>>

----------------------------------------------------------------------------
(* Operation starts *)

(* The message a run posted in the step that finished it. *)
PostedNow(rec) == IF rec.pc = "done" THEN rec.posted ELSE Nil

StartOp(r, rec, open, cost) ==
  /\ Slot(r)
  /\ opsLeft >= cost
  /\ opsLeft' = opsLeft - cost
  /\ runs' = [runs EXCEPT ![r] = rec]
  /\ ViewAfter(PostedNow(rec), open)
  /\ UNCHANGED <<folder, files, clock, extLeft>>

(* resolveWebviewView: set this.view, bind, `void this.pushState()`. *)
resolveWebviewView(r) ==
  /\ ~viewOpen
  /\ viewOpen' = TRUE
  /\ Ensure(notified)
  /\ StartOp(r, BeginPush(NewRun("push"), EnsuredStore), TRUE, 0)

(* The requestState message of the dashboard and the refresh command. *)
pushState(r) ==
  /\ Ensure(notified)
  /\ StartOp(r, BeginPush(NewRun("push"), EnsuredStore), viewOpen, 1)
  /\ UNCHANGED viewOpen

(* The watcher's onChange callback. *)
onChange(r) ==
  /\ notified
  /\ Ensure(FALSE)
  /\ StartOp(r, BeginPush(NewRun("watch"), EnsuredStore), viewOpen, 0)
  /\ UNCHANGED viewOpen

(* Mutant: the operation returns without the warning. *)
UnboundSilent(rec) == Finish(rec, "advisory")

Unbound(rec) == [Finish(rec, "advisory") EXCEPT !.shown = NoWorkspaceWarning]

openStateFile(r) ==
  /\ Ensure(notified)
  /\ StartOp(r, IF EnsuredStore = None THEN Unbound(NewRun("open"))
                ELSE CallRead(NewRun("open"), EnsuredStore), viewOpen, 1)
  /\ UNCHANGED viewOpen

processHumanMessages(r) ==
  /\ Ensure(notified)
  /\ StartOp(r, IF EnsuredStore = None THEN Unbound(NewRun("phm"))
                ELSE CallRead(NewRun("phm"), EnsuredStore), viewOpen, 1)
  /\ UNCHANGED viewOpen

seedRoadmap(r) ==
  /\ Ensure(notified)
  /\ StartOp(r, IF EnsuredStore = None THEN Unbound(NewRun("seed"))
                ELSE [NewRun("seed") EXCEPT !.pc = "confirm", !.prompts = 1],
             viewOpen, 1)
  /\ UNCHANGED viewOpen

----------------------------------------------------------------------------
(* The dashboard (media/dashboard.js) *)

(* Mutant: the revision is left as it is. *)
saveStateSameRevision(state, now) == [state EXCEPT !.updatedAt = now]

(* groupedMilestones: the key a task is grouped under. *)
MilestoneOf(task) == IF task.milestone = "" THEN "Unassigned" ELSE task.milestone

Milestones(tasks) == {MilestoneOf(tasks[i]) : i \in 1..Len(tasks)}

(* renderMilestones: `total` and `done` of the group `name`. *)
TotalIn(tasks, name) ==
  Cardinality({i \in 1..Len(tasks) : MilestoneOf(tasks[i]) = name})

DoneIn(tasks, name) ==
  Cardinality({i \in 1..Len(tasks) :
                 MilestoneOf(tasks[i]) = name /\ tasks[i].lane = "done"})

(* saveState(): stamp, bump the revision; the payload posted is a copy. *)
saveState(state, now) ==
  [state EXCEPT !.updatedAt = now, !.revision = state.revision + 1]

MsgIds(msgs) == {msgs[i].id : i \in 1..Len(msgs)}

(* uid('msg'): an id no message of the view's copy carries. *)
uid(msgs) ==
  <<"uid", CHOOSE n \in 1..(Len(msgs) + 1) :
             /\ <<"uid", n>> \notin MsgIds(msgs)
             /\ \A k \in 1..(n - 1) : <<"uid", k>> \in MsgIds(msgs)>>

ClickPost(r, state, control) ==
  /\ viewOpen
  /\ Slot(r)
  /\ opsLeft > 0
  /\ state.revision < MaxRev
  /\ vstate' = saveState(state, clock)
  /\ runs' = [runs EXCEPT ![r] =
       [NewRun("save") EXCEPT !.doc = vstate', !.snap = state, !.click = control]]
  /\ opsLeft' = opsLeft - 1
  /\ UNCHANGED <<folder, store, watcher, live, notified, files, clock, viewOpen,
                 vlast, vinfo, extLeft>>

DashPost(r, state) == ClickPost(r, state, Nil)

(* The Save button. *)
saveBtn(r) == DashPost(r, vstate)

(* The Send button: append a human -> ai message, then saveState(). *)
sendMsgBtn(r) ==
  /\ Len(vstate.messages) < MaxMsgs
  /\ DashPost(r, [vstate EXCEPT !.messages =
       Append(@, [id |-> uid(vstate.messages), from |-> "human", to |-> "ai",
                  type |-> "question", title |-> <<"ask">>, body |-> "text",
                  createdAt |-> clock, resolved |-> FALSE])])

(* The lanes the task form's select offers. *)
Lanes == {"todo", "progress", "done"}

(* Mutant: a task in lane done is moved on to lane todo. *)
nextLaneWraps(current) ==
  IF current = "todo" THEN "progress"
  ELSE IF current = "progress" THEN "done"
  ELSE "todo"

nextLane(current) ==
  IF current = "todo" THEN "progress"
  ELSE IF current = "progress" THEN "done"
  ELSE "done"

(* state.tasks.find(t => t.id === id): the first task of that id, 0 if none. *)
FindTask(tasks, id) ==
  IF \E i \in 1..Len(tasks) : tasks[i].id = id
  THEN CHOOSE i \in 1..Len(tasks) :
         /\ tasks[i].id = id
         /\ \A k \in 1..(i - 1) : tasks[k].id # id
  ELSE 0

(* action === 'advance' *)
advance(task) ==
  [task EXCEPT !.lane = nextLane(task.lane),
               !.status = IF nextLane(task.lane) = "done" THEN "done" ELSE "progress"]

(* action === 'owner' *)
owner(task) == [task EXCEPT !.owner = IF task.owner = "human" THEN "ai" ELSE "human"]

(* Mutant: unblocking always restores status done. *)
blockRestoresDone(task) ==
  [task EXCEPT !.status = IF task.status = "blocked" THEN "done" ELSE "blocked"]

(* action === 'block' *)
block(task) ==
  [task EXCEPT !.status =
     IF task.status = "blocked"
     THEN (IF task.lane = "done" THEN "done" ELSE "progress")
     ELSE "blocked"]

(* action === 'del': state.tasks.filter(t => t.id !== id) *)
del(tasks, id) == SelectSeq(tasks, LAMBDA t : t.id # id)

(* A click on the control `act` of the card of task `id`: the handler *)
(* changes the found task in place, then saveState().                  *)
TaskClick(r, act, id) ==
  LET tasks == vstate.tasks
      k == FindTask(tasks, id)
      after == IF act = "advance" THEN [tasks EXCEPT ![k] = advance(tasks[k])]
               ELSE IF act = "owner" THEN [tasks EXCEPT ![k] = owner(tasks[k])]
               ELSE IF act = "block" THEN [tasks EXCEPT ![k] = block(tasks[k])]
               ELSE del(tasks, id)
  IN /\ k # 0
     /\ ClickPost(r, [vstate EXCEPT !.tasks = after],
                  [act |-> act, id |-> id, before |-> tasks, prev |-> runs[r].click])

TaskIds == {vstate.tasks[i].id : i \in 1..Len(vstate.tasks)}

advanceBtn(r) == \E id \in TaskIds : TaskClick(r, "advance", id)
ownerBtn(r) == \E id \in TaskIds : TaskClick(r, "owner", id)
blockBtn(r) == \E id \in TaskIds : TaskClick(r, "block", id)
delBtn(r) == \E id \in TaskIds : TaskClick(r, "del", id)

(* The Add Task button with a title typed: push the task, then saveState(). *)
addTaskBtn(r) ==
  /\ Len(vstate.tasks) < MaxTasks
  /\ \E lane \in Lanes :
       LET id == uid(vstate.tasks)
       IN ClickPost(r, [vstate EXCEPT !.tasks =
            Append(@, [id |-> id, owner |-> "human", lane |-> lane,
                       status |-> IF lane = "done" THEN "done" ELSE "todo",
                       milestone |-> "", priority |-> "p1", createdAt |-> clock])],
            [act |-> "add", id |-> id, before |-> vstate.tasks,
             prev |-> runs[r].click])

(* A saveState message that carries no payload reaches handleMessage. *)
saveStateNoPayload(r) ==
  /\ viewOpen
  /\ Slot(r)
  /\ opsLeft > 0
  /\ runs' = [runs EXCEPT ![r] = NewRun("save")]
  /\ opsLeft' = opsLeft - 1
  /\ UNCHANGED <<folder, store, watcher, live, notified, files, clock, viewOpen,
                 vstate, vlast, vinfo, extLeft>>

(* Mutant: every payload is taken for a document. *)
NoPayloadNever(payload) == FALSE

(* `!payload`: the message carried none. *)
NoPayload(payload) == payload = Nil

(* handleMessage -> saveFromWebview(payload), up to its first await. *)
saveFromWebview(r) ==
  /\ runs[r].op = "save"
  /\ runs[r].pc = "start"
  /\ Ensure(notified)
  /\ LET rec == runs[r]
         new == IF EnsuredStore = None
                THEN [Finish(rec, "advisory") EXCEPT !.posted = InfoMsg(NoWorkspaceSave)]
                ELSE IF NoPayload(rec.doc)
                THEN [Finish(rec, "invalid") EXCEPT !.posted = InfoMsg(InvalidPayload)]
                ELSE CallWrite(rec, EnsuredStore, rec.doc, clock)
     IN /\ runs' = [runs EXCEPT ![r] = new]
        /\ ViewAfter(PostedNow(new), viewOpen)
  /\ UNCHANGED <<folder, files, clock, viewOpen, opsLeft, extLeft>>

----------------------------------------------------------------------------
(* TrackerStateStore.read and write, one action per completed await *)

(* History: what the run's first read() found in the file. *)
Found(rec, content, failed) ==
  IF rec.phase = "main"
  THEN [rec EXCEPT !.seen = content, !.rfail = failed]
  ELSE rec

(* readFile and JSON.parse succeeded: return normalize(parsed). *)
ReadFileOk(r) ==
  /\ runs[r].pc = "read"
  /\ ParseOk(files[runs[r].sroot])
  /\ LET rec == runs[r]
         new == AfterRead(Found(rec, files[rec.sroot], FALSE),
                          normalize(Parse(files[rec.sroot]), clock), clock)
     IN /\ runs' = [runs EXCEPT ![r] = new]
        /\ ViewAfter(PostedNow(new), viewOpen)
  /\ UNCHANGED <<folder, store, watcher, live, notified, files, clock, viewOpen,
                 opsLeft, extLeft>>

(* readFile or JSON.parse threw: defaultState(), then write(created) up to *)
(* `await createDirectory`.  The clock may advance between the two         *)
(* `new Date()` of defaultState() and of write().                          *)
ReadFileFail(r) ==
  /\ runs[r].pc = "read"
  /\ ~ParseOk(files[runs[r].sroot])
  /\ \E t \in {clock, clock + 1} :
       /\ t <= MaxClock
       /\ clock' = t
       /\ LET rec == runs[r]
          IN runs' = [runs EXCEPT ![r] =
               [Found(rec, files[rec.sroot], TRUE)
                  EXCEPT !.pc = "rmkdir", !.doc = defaultState(clock),
                         !.norm = Stamp(defaultState(clock), t), !.rat = t,
                         !.rseen = files[rec.sroot]]]
  /\ UNCHANGED <<folder, store, watcher, live, notified, files, viewOpen, vstate, vlast,
                 vinfo, opsLeft, extLeft>>

InMkdir(r) == runs[r].pc \in {"rmkdir", "mkdir"}

createDirectoryOk(r) ==
  /\ InMkdir(r)
  /\ runs' = [runs EXCEPT ![r].pc = IF @ = "rmkdir" THEN "rwrite" ELSE "write"]
  /\ UNCHANGED <<folder, store, watcher, live, notified, files, clock, viewOpen,
                 vstate, vlast, vinfo, opsLeft, extLeft>>

(* Mutant: the error is caught and the attempted document is pushed. *)
ThrowSwallowed(r) ==
  /\ runs' = [runs EXCEPT ![r] =
       [Finish(@, "ok") EXCEPT
          !.threw = IF runs[r].pc \in {"rmkdir", "rwrite"} THEN "read" ELSE "write",
          !.posted = StateMsg(runs[r].norm)]]
  /\ UNCHANGED <<folder, store, watcher, live, notified, files, clock, viewOpen,
                 vstate, vlast, vinfo, opsLeft, extLeft>>

(* An I/O error of createDirectory or writeFile rejects write(), and with *)
(* it read() when the write is read()'s recovery, and the operation.      *)
Throw(r) ==
  /\ runs' = [runs EXCEPT ![r] =
       [Finish(@, "failed") EXCEPT
          !.threw = IF runs[r].pc \in {"rmkdir", "rwrite"} THEN "read" ELSE "write"]]
  /\ UNCHANGED <<folder, store, watcher, live, notified, files, clock, viewOpen,
                 vstate, vlast, vinfo, opsLeft, extLeft>>

createDirectoryFail(r) == InMkdir(r) /\ Throw(r)

InWrite(r) == runs[r].pc \in {"rwrite", "write"}

writeFileFail(r) == InWrite(r) /\ Throw(r)

(* writeFile completed; the caller's code runs up to its next await. *)
writeFileOk(r) ==
  /\ InWrite(r)
  /\ LET rec == runs[r]
         recovery == rec.pc = "rwrite"
         content == Written(files[rec.sroot], rec.norm)
         rec1 == IF recovery
                 THEN [rec EXCEPT !.recov = @ + 1, !.norm = Nil,
                                  !.rwrote = content,
                                  !.rret = RecoveryResult(rec.doc, rec.norm)]
                 ELSE [rec EXCEPT !.wrote = content, !.pre = files[rec.sroot]]
         rebinds == ~recovery /\ rec.op \in {"phm", "seed"}
         new == IF recovery
                THEN AfterRead(rec1, RecoveryResult(rec.doc, rec.norm), clock)
                ELSE AfterWrite(rec1, EnsuredStore)
     IN /\ files' = [files EXCEPT ![rec.sroot] = content]
        /\ IF rebinds THEN Ensure(Raised(rec.sroot))
           ELSE /\ notified' = Raised(rec.sroot)
                /\ UNCHANGED <<store, watcher, live>>
        /\ runs' = [runs EXCEPT ![r] = new]
        /\ ViewAfter(PostedNow(new), viewOpen)
  /\ UNCHANGED <<folder, clock, viewOpen, opsLeft, extLeft>>

----------------------------------------------------------------------------
(* processHumanMessages: the operator prompts and steps 5 to 7 *)

(* pending.find(m => m.id === pick.id), as an index into state.messages. *)
(* History: the index in msgs of the p-th pending message. *)
PendingAt(msgs, p) ==
  CHOOSE i \in 1..Len(msgs) :
    /\ IsPending(msgs[i])
    /\ Cardinality({k \in 1..i : IsPending(msgs[k])}) = p

FindSource(msgs, id) ==
  CHOOSE i \in 1..Len(msgs) :
    /\ IsPending(msgs[i]) /\ msgs[i].id = id
    /\ \A k \in 1..(i - 1) : ~(IsPending(msgs[k]) /\ msgs[k].id = id)

ReplyMessage(source, response, now) ==
  [id |-> <<"msg", now>>, from |-> "ai", to |-> "human", type |-> "response",
   title |-> <<"Re: ">> \o source.title, body |-> response, createdAt |-> now,
   resolved |-> FALSE, inReplyTo |-> source.id]

(* Mutant: the first pending message is resolved instead of `source`. *)
ApplyReplyFirst(state, src, response, now) ==
  [state EXCEPT
     !.messages = Append([@ EXCEPT ![PendingAt(state.messages, 1)].resolved = TRUE],
                         ReplyMessage(state.messages[src], response, now)),
     !.revision = @ + 1]

(* source.resolved = true; state.messages.push({...}); state.revision += 1 *)
ApplyReply(state, src, response, now) ==
  [state EXCEPT
     !.messages = Append([@ EXCEPT ![src].resolved = TRUE],
                         ReplyMessage(state.messages[src], response, now)),
     !.revision = @ + 1]

Responses == {"ack"}

Step(r, new) ==
  /\ runs' = [runs EXCEPT ![r] = new]
  /\ UNCHANGED <<folder, store, watcher, live, notified, files, clock, viewOpen,
                 vstate, vlast, vinfo, opsLeft, extLeft>>

(* showQuickPick resolved with the p-th pending item. *)
pickMessage(r) ==
  /\ runs[r].pc = "pick"
  /\ LET rec == runs[r]
         pending == Pending(rec.doc.messages)
     IN \E p \in 1..Len(pending) :
          Step(r, [rec EXCEPT !.pc = "input", !.prompts = @ + 1,
                     !.src = FindSource(rec.doc.messages, pending[p].id),
                     !.chosen = PendingAt(rec.doc.messages, p)])

(* showQuickPick resolved with undefined. *)
cancelPick(r) ==
  /\ runs[r].pc = "pick"
  /\ Step(r, Finish([runs[r] EXCEPT !.abandoned = TRUE], "cancelled"))

(* showInputBox resolved with a non-empty response. *)
reply(r) ==
  /\ runs[r].pc = "input"
  /\ runs[r].doc.revision < MaxRev
  /\ Len(runs[r].doc.messages) < MaxMsgs
  /\ LET rec == runs[r]
     IN \E response \in Responses :
          Step(r, CallWrite(rec, store,
                            ApplyReply(rec.doc, rec.src, response, clock), clock))

(* Mutant: only undefined ends the run, the empty string is a response. *)
cancelInputEmptyIsReply(r) ==
  /\ runs[r].pc = "input"
  /\ Step(r, CallWrite([runs[r] EXCEPT !.abandoned = TRUE], store,
                        ApplyReply(runs[r].doc, runs[r].src, "", clock), clock))

(* showInputBox resolved with undefined or with the empty string. *)
cancelInput(r) ==
  /\ runs[r].pc = "input"
  /\ Step(r, Finish([runs[r] EXCEPT !.abandoned = TRUE], "cancelled"))

----------------------------------------------------------------------------
(* seedRoadmap: the confirmation *)

confirmSeed(r) ==
  /\ runs[r].pc = "confirm"
  /\ Step(r, CallWrite(runs[r], store, defaultState(clock), clock))

(* Mutant: the seed is written whatever the operator answered. *)
dismissSeedWrites(r) ==
  /\ runs[r].pc = "confirm"
  /\ Step(r, CallWrite([runs[r] EXCEPT !.abandoned = TRUE], store,
                        defaultState(clock), clock))

(* showWarningMessage resolved with undefined: the dialog was dismissed. *)
dismissSeed(r) ==
  /\ runs[r].pc = "confirm"
  /\ Step(r, Finish([runs[r] EXCEPT !.abandoned = TRUE], "cancelled"))

----------------------------------------------------------------------------

Next ==
  \/ Tick
  \/ ExternalWrite
  \/ ExternalDelete
  \/ ExternalCorrupt
  \/ \E r \in RunIds : resolveWebviewView(r)
  \/ \E r \in RunIds : pushState(r)
  \/ \E r \in RunIds : onChange(r)
  \/ \E r \in RunIds : openStateFile(r)
  \/ \E r \in RunIds : processHumanMessages(r)
  \/ \E r \in RunIds : seedRoadmap(r)
  \/ \E r \in RunIds : saveBtn(r)
  \/ \E r \in RunIds : sendMsgBtn(r)
  \/ \E r \in RunIds : saveStateNoPayload(r)
  \/ \E r \in RunIds : saveFromWebview(r)
  \/ \E r \in RunIds : ReadFileOk(r)
  \/ \E r \in RunIds : ReadFileFail(r)
  \/ \E r \in RunIds : createDirectoryOk(r)
  \/ \E r \in RunIds : createDirectoryFail(r)
  \/ \E r \in RunIds : writeFileOk(r)
  \/ \E r \in RunIds : writeFileFail(r)
  \/ \E r \in RunIds : pickMessage(r)
  \/ \E r \in RunIds : cancelPick(r)
  \/ \E r \in RunIds : reply(r)
  \/ \E r \in RunIds : cancelInput(r)
  \/ \E r \in RunIds : confirmSeed(r)
  \/ \E r \in RunIds : dismissSeed(r)

Spec == Init /\ [][Next]_vars

NextStore ==
  \/ Tick
  \/ \E r \in RunIds : resolveWebviewView(r)
  \/ \E r \in RunIds : pushState(r)
  \/ \E r \in RunIds : onChange(r)
  \/ \E r \in RunIds : openStateFile(r)
  \/ \E r \in RunIds : ReadFileOk(r)
  \/ \E r \in RunIds : ReadFileFail(r)
  \/ \E r \in RunIds : createDirectoryOk(r)
  \/ \E r \in RunIds : createDirectoryFail(r)
  \/ \E r \in RunIds : writeFileOk(r)
  \/ \E r \in RunIds : writeFileFail(r)

SpecStore == InitStore /\ [][NextStore]_vars

(* The board: the view opens on a missing file (the seed) or on an empty *)
(* document, and the operator works the task controls; every click saves. *)
(* The watcher's refresh, which re-sends the saved file, is left to the   *)
(* other specifications.                                                  *)
InitBoard ==
  InitBudget(1, {"r1"}, {Missing, Encode(InitialView)}, {Missing}, MaxClicks)

NextBoard ==
  \/ \E r \in RunIds : resolveWebviewView(r)
  \/ \E r \in RunIds : addTaskBtn(r)
  \/ \E r \in RunIds : advanceBtn(r)
  \/ \E r \in RunIds : ownerBtn(r)
  \/ \E r \in RunIds : blockBtn(r)
  \/ \E r \in RunIds : delBtn(r)
  \/ \E r \in RunIds : saveFromWebview(r)
  \/ \E r \in RunIds : ReadFileOk(r)
  \/ \E r \in RunIds : ReadFileFail(r)
  \/ \E r \in RunIds : createDirectoryOk(r)
  \/ \E r \in RunIds : writeFileOk(r)

SpecBoard == InitBoard /\ [][NextBoard]_vars

(* The file system accepts the store's I/O, every await of the controller *)
(* settles, a queued watcher event is delivered, and the operator answers *)
(* or dismisses every prompt.                                             *)
NextLive ==
  \/ Tick
  \/ ExternalWrite
  \/ ExternalDelete
  \/ ExternalCorrupt
  \/ \E r \in RunIds : resolveWebviewView(r)
  \/ \E r \in RunIds : pushState(r)
  \/ \E r \in RunIds : onChange(r)
  \/ \E r \in RunIds : openStateFile(r)
  \/ \E r \in RunIds : processHumanMessages(r)
  \/ \E r \in RunIds : seedRoadmap(r)
  \/ \E r \in RunIds : saveBtn(r)
  \/ \E r \in RunIds : sendMsgBtn(r)
  \/ \E r \in RunIds : saveStateNoPayload(r)
  \/ \E r \in RunIds : saveFromWebview(r)
  \/ \E r \in RunIds : ReadFileOk(r)
  \/ \E r \in RunIds : ReadFileFail(r)
  \/ \E r \in RunIds : createDirectoryOk(r)
  \/ \E r \in RunIds : writeFileOk(r)
  \/ \E r \in RunIds : pickMessage(r)
  \/ \E r \in RunIds : cancelPick(r)
  \/ \E r \in RunIds : reply(r)
  \/ \E r \in RunIds : cancelInput(r)
  \/ \E r \in RunIds : confirmSeed(r)
  \/ \E r \in RunIds : dismissSeed(r)

Settles ==
  \E r \in RunIds :
    \/ saveFromWebview(r)
    \/ ReadFileOk(r) \/ ReadFileFail(r)
    \/ createDirectoryOk(r) \/ writeFileOk(r)

Answers ==
  \E r \in RunIds :
    \/ pickMessage(r) \/ cancelPick(r)
    \/ reply(r) \/ cancelInput(r)
    \/ confirmSeed(r) \/ dismissSeed(r)

Delivers == \E r \in RunIds : onChange(r)

SpecLive ==
  /\ Init
  /\ [][NextLive]_vars
  /\ WF_vars(Settles)
  /\ WF_vars(Answers)
  /\ WF_vars(Delivers)

(* The workspace folder may be any root or none, and may change. *)
InitRoots ==
  InitOf(1, Roots \cup {None}, {Missing, Encode(ExtDocFull)},
         {Missing, Encode(ExtDocPartial)})

NextRoots == Next \/ workspaceFoldersChange

SpecRoots == InitRoots /\ [][NextRoots]_vars

(* Two controller operations in flight at once. *)
InitPar == InitWith(2)

(* Two operations in flight: reads (with their recovery writes) against *)
(* the saves of the dashboard, on a file that may be missing, deleted or *)
(* corrupted.                                                            *)
NextRace ==
  \/ ExternalDelete
  \/ ExternalCorrupt
  \/ \E r \in RunIds : resolveWebviewView(r)
  \/ \E r \in RunIds : pushState(r)
  \/ \E r \in RunIds : onChange(r)
  \/ \E r \in RunIds : saveBtn(r)
  \/ \E r \in RunIds : sendMsgBtn(r)
  \/ \E r \in RunIds : saveFromWebview(r)
  \/ \E r \in RunIds : ReadFileOk(r)
  \/ \E r \in RunIds : ReadFileFail(r)
  \/ \E r \in RunIds : createDirectoryOk(r)
  \/ \E r \in RunIds : writeFileOk(r)

SpecRace == InitPar /\ [][NextRace]_vars

(* Two operations in flight while the first workspace folder changes: a *)
(* processHumanMessages run waits at its prompts, a refresh re-runs the  *)
(* binding check.                                                        *)
InitRebind ==
  InitOf(2, {"r1"}, {Encode(ExtDocFull)}, {Missing, Encode(ExtDocPartial)})

NextRebind ==
  \/ workspaceFoldersChange
  \/ \E r \in RunIds : pushState(r)
  \/ \E r \in RunIds : onChange(r)
  \/ \E r \in RunIds : processHumanMessages(r)
  \/ \E r \in RunIds : ReadFileOk(r)
  \/ \E r \in RunIds : ReadFileFail(r)
  \/ \E r \in RunIds : createDirectoryOk(r)
  \/ \E r \in RunIds : writeFileOk(r)
  \/ \E r \in RunIds : pickMessage(r)
  \/ \E r \in RunIds : cancelPick(r)
  \/ \E r \in RunIds : reply(r)
  \/ \E r \in RunIds : cancelInput(r)

SpecRebind == InitRebind /\ [][NextRebind]_vars

SpecPar == InitPar /\ [][Next]_vars

----------------------------------------------------------------------------
(* Properties *)

Phm(rec) == rec.op = "phm"

(* The document a content holds, as stored. *)
Stored(content) == [f \in DOMAIN Parse(content) |-> Parse(content)[f].v]

(* C1: after a processHumanMessages run that persisted its result, the      *)
(* persisted document, compared with the document read in step 1, has the   *)
(* selected message resolved, exactly one new message, which is the ai ->   *)
(* human response answering the selected message, and every other message   *)
(* as it was.                                                               *)
C1_ReplyApplied ==
  \A r \in RunIds :
    LET rec == runs[r] IN
    (Phm(rec) /\ rec.wrote # Nil) =>
      LET old == rec.snap.messages
          new == Stored(rec.wrote).messages
          c == rec.chosen
          last == new[Len(new)]
      IN /\ Len(new) = Len(old) + 1
         /\ new[c].resolved = TRUE
         /\ new[c] = [old[c] EXCEPT !.resolved = TRUE]
         /\ \A i \in 1..Len(old) : i # c => new[i] = old[i]
         /\ last.from = "ai" /\ last.to = "human" /\ last.type = "response"
         /\ last.resolved = FALSE
         /\ last.inReplyTo = old[c].id

(* A run that completed after replying to the second of two pending messages. *)
C1_Witness ==
  \E r \in RunIds :
    /\ Phm(runs[r]) /\ runs[r].out = "ok" /\ runs[r].wrote # Nil
    /\ runs[r].chosen = 3
    /\ IsPending(runs[r].snap.messages[1])

(* C2: when the file was replaced between the run's read and its write, the *)
(* persisted document is the step-1 snapshot with the resolution and the    *)
(* reply applied and the revision raised: nothing of the file's content at  *)
(* write time is in it.                                                     *)
C2_SnapshotWins ==
  \A r \in RunIds :
    LET rec == runs[r] IN
    (Phm(rec) /\ rec.wrote # Nil /\ rec.pre # rec.seen) =>
      LET w == Stored(rec.wrote)
          answer == w.messages[Len(w.messages)]
      IN w = [revision |-> rec.snap.revision + 1,
              updatedAt |-> rec.at,
              tasks |-> rec.snap.tasks,
              messages |-> Append([rec.snap.messages EXCEPT ![rec.chosen].resolved = TRUE],
                                  answer)]

(* The file held another document, with other tasks, when the run wrote. *)
C2_Witness ==
  \E r \in RunIds :
    /\ Phm(runs[r]) /\ runs[r].wrote # Nil
    /\ runs[r].pre = Encode(ExtDocPartial)
    /\ runs[r].seen = Encode(ExtDocFull)
    /\ runs[r].out = "ok"

(* C3: a processHumanMessages run the operator abandoned at a prompt has    *)
(* written nothing: no recovery write, no result write, its copy of the     *)
(* document is as read (no message resolved, no reply), nothing was pushed. *)
C3_AbandonNoEffect ==
  \A r \in RunIds :
    LET rec == runs[r] IN
    (Phm(rec) /\ rec.abandoned) =>
      /\ rec.pc = "done" /\ rec.out = "cancelled"
      /\ rec.wrote = Nil /\ rec.pre = Nil /\ rec.recov = 0
      /\ rec.doc = rec.snap
      /\ rec.posted = Nil

(* A run abandoned at the reply prompt, after a message was selected. *)
C3_Witness ==
  \E r \in RunIds :
    /\ Phm(runs[r]) /\ runs[r].abandoned /\ runs[r].prompts = 2

(* No message of msgs is an unresolved human -> ai message. *)
NoneUnresolved(msgs) ==
  \A i \in 1..Len(msgs) :
    ~(msgs[i].from = "human" /\ msgs[i].to = "ai" /\ msgs[i].resolved = FALSE)

NonePendingRun(rec) ==
  Phm(rec) /\ rec.snap # Nil /\ NoneUnresolved(rec.snap.messages)

NonePendingReport(rec) ==
  /\ rec.pc = "done" /\ rec.out = "none" /\ rec.shown = NonePending
  /\ rec.prompts = 0
  /\ rec.wrote = Nil /\ rec.pre = Nil

(* C4 as stated: a processHumanMessages run that finds no unresolved human  *)
(* -> ai message writes nothing at all, reports "none pending" and opens no *)
(* prompt.                                                                  *)
C4_NonePendingWritesNothing ==
  \A r \in RunIds :
    NonePendingRun(runs[r]) =>
      NonePendingReport(runs[r]) /\ runs[r].recov = 0

(* C4 amended: such a run reports "none pending", opens no prompt and       *)
(* writes no result; the file is written by it only when step 1 found      *)
(* the file missing or malformed, and then once, by read()'s recovery,     *)
(* with the default document.                                              *)
C4_NonePendingOnlyRecovers ==
  \A r \in RunIds :
    LET rec == runs[r] IN
    NonePendingRun(rec) =>
      /\ NonePendingReport(rec)
      /\ rec.recov = IF rec.rfail THEN 1 ELSE 0
      /\ rec.rfail =>
           /\ ~ParseOk(rec.seen)
           /\ \E t \in 0..rec.rat :
                Stored(rec.rwrote) = [defaultState(t) EXCEPT !.updatedAt = rec.rat]

(* A run that found no file, recreated it and reported "none pending". *)
C4_Witness ==
  \E r \in RunIds :
    /\ NonePendingRun(runs[r]) /\ runs[r].rfail
    /\ runs[r].seen = Missing
    /\ runs[r].recov = 1
    /\ runs[r].out = "none"

(* C5: a processHumanMessages run persists the revision of the document it  *)
(* read plus exactly 1, and a run that completes has then posted a state    *)
(* message.                                                                 *)
C5_RevisionPlusOne ==
  \A r \in RunIds :
    LET rec == runs[r] IN
    (Phm(rec) /\ rec.wrote # Nil) =>
      /\ Stored(rec.wrote).revision = rec.snap.revision + 1
      /\ rec.out = "ok" => (rec.posted # Nil /\ rec.posted.type = "state")

C5_Witness ==
  \E r \in RunIds :
    /\ Phm(runs[r]) /\ runs[r].out = "ok"
    /\ runs[r].snap.revision = 3
    /\ Stored(runs[r].wrote).revision = 4
    /\ runs[r].posted.type = "state"

Save(rec) == rec.op = "save"

(* C6: the document a saveState pushes back is the document its write       *)
(* stored: tasks, messages and revision of the normalized payload, with the *)
(* updatedAt the store stamped; and a saveState that completes has pushed   *)
(* it.                                                                      *)
C6_PushedIsWritten ==
  \A r \in RunIds :
    LET rec == runs[r] IN
    /\ (Save(rec) /\ rec.posted # Nil /\ rec.posted.type = "state") =>
         LET pushed == rec.posted.payload
             payload == normalize(AsRaw(rec.doc), rec.at)
         IN /\ rec.wrote = Encode(pushed)
            /\ pushed.tasks = payload.tasks
            /\ pushed.messages = payload.messages
            /\ pushed.revision = payload.revision
            /\ pushed.updatedAt = rec.at
    /\ (Save(rec) /\ rec.out = "ok") =>
         (rec.posted # Nil /\ rec.posted.type = "state")

(* A save whose payload carried an older updatedAt than the store stamped. *)
C6_Witness ==
  \E r \in RunIds :
    /\ Save(runs[r]) /\ runs[r].out = "ok"
    /\ runs[r].doc.updatedAt < runs[r].at
    /\ Len(runs[r].doc.messages) > 0

(* The runs that stored a result through the store's write. *)
Wrote(rec) == rec.wrote # Nil

(* C7 as stated: no write through the store lowers the revision in the file. *)
C7_RevisionNeverDecreases ==
  \A r \in RunIds :
    LET rec == runs[r] IN
    (Wrote(rec) /\ ParseOk(rec.pre)) =>
      FileRevision(rec.pre) <= Stored(rec.wrote).revision

(* C7 amended: a recovery write and a seedRoadmap write persist revision 1; *)
(* a dashboard save and processHumanMessages persist the revision of the    *)
(* copy they work from plus 1, openStateFile the revision it read; so such  *)
(* a write does not lower the file's revision when that copy is as recent   *)
(* as the file, and a dashboard save then raises it.                        *)
C7_RevisionBookkeeping ==
  \A r \in RunIds :
    LET rec == runs[r] IN
    /\ rec.rwrote # Nil => Stored(rec.rwrote).revision = 1
    /\ Wrote(rec) =>
         LET w == Stored(rec.wrote).revision IN
         /\ rec.op = "seed" => w = 1
         /\ rec.op \in {"save", "phm"} => w = rec.snap.revision + 1
         /\ rec.op = "open" => w = rec.snap.revision
         /\ (rec.op # "seed" /\ ParseOk(rec.pre)
               /\ FileRevision(rec.pre) <= rec.snap.revision) =>
              /\ FileRevision(rec.pre) <= w
              /\ rec.op = "save" => FileRevision(rec.pre) < w

(* A dashboard save over the very document the view had received. *)
C7_Witness ==
  \E r \in RunIds :
    /\ Save(runs[r]) /\ Wrote(runs[r]) /\ ParseOk(runs[r].pre)
    /\ FileRevision(runs[r].pre) = runs[r].snap.revision
    /\ runs[r].snap.revision = 3

(* C8: when read() finds no file, the document it returns is the document   *)
(* its recovery write stored, field for field, updatedAt included.          *)
C8_RecoveryReturnsWritten ==
  \A r \in RunIds :
    LET rec == runs[r] IN
    (rec.rwrote # Nil /\ rec.rseen = Missing) => rec.rret = Stored(rec.rwrote)

(* C9: read() never rejects, whatever the file holds and whatever the       *)
(* filesystem answers during recovery.                                      *)
C9_ReadNeverThrows == \A r \in RunIds : runs[r].threw # "read"

(* C10: a saveState whose write failed ended as a failure, wrote nothing,   *)
(* pushed no message and does not run again.                                *)
C10_FailedSaveLeavesDisk ==
  \A r \in RunIds :
    LET rec == runs[r] IN
    (Save(rec) /\ rec.threw = "write") =>
      /\ rec.pc = "done" /\ rec.out = "failed"
      /\ rec.wrote = Nil /\ rec.recov = 0
      /\ rec.posted = Nil

C10_Witness ==
  \E r \in RunIds :
    /\ Save(runs[r]) /\ runs[r].threw = "write"
    /\ viewOpen /\ vstate = runs[r].doc

(* The time the write() call a run is in stamped. *)
StampTime(rec) == IF rec.pc \in {"rmkdir", "rwrite"} THEN rec.rat ELSE rec.at

InWriteCall(rec) == rec.pc \in {"rmkdir", "rwrite", "mkdir", "write"}

(* C11 as stated: in every write() call, whatever the caller passed, the    *)
(* document being written carries the store's time and that time is not     *)
(* before the updatedAt the caller passed.                                  *)
C11_StampNotBeforeCaller ==
  \A r \in RunIds :
    LET rec == runs[r] IN
    (InWriteCall(rec) /\ HasField(rec.doc, "updatedAt")) =>
      /\ rec.norm.updatedAt = StampTime(rec)
      /\ rec.norm.updatedAt >= rec.doc.updatedAt

(* C11: in every write() call the document being written carries the time   *)
(* the store read from the clock in that call, whatever the caller passed;   *)
(* the written file and the document write() returned to saveFromWebview     *)
(* carry that time too.  It is not before the caller's updatedAt when the    *)
(* caller's value is not ahead of the clock.                                 *)
C11_StampIsStoreTime ==
  \A r \in RunIds :
    LET rec == runs[r] IN
    /\ InWriteCall(rec) =>
         /\ rec.norm.updatedAt = StampTime(rec)
         /\ rec.norm.updatedAt <= clock
         /\ (HasField(rec.doc, "updatedAt") /\ rec.doc.updatedAt <= StampTime(rec))
              => rec.norm.updatedAt >= rec.doc.updatedAt
    /\ rec.wrote # Nil => Stored(rec.wrote).updatedAt = rec.at
    /\ rec.rwrote # Nil => Stored(rec.rwrote).updatedAt = rec.rat
    /\ (rec.op = "save" /\ rec.out = "ok") => rec.posted.payload.updatedAt = rec.at

(* openStateFile wrote back a document whose updatedAt was ahead of the *)
(* clock: the file now carries the earlier store time.                  *)
C11_Witness ==
  \E r \in RunIds :
    /\ runs[r].op = "open" /\ runs[r].wrote # Nil
    /\ runs[r].doc.updatedAt > runs[r].at
    /\ Stored(runs[r].wrote).updatedAt = runs[r].at

----------------------------------------------------------------------------
(* The store over every file content (SpecStore) *)

IsSequence(x) == DOMAIN x = 1..Len(x)

IsDocument(d) ==
  /\ DOMAIN d = Fields
  /\ d.revision \in Int
  /\ d.updatedAt \in Nat
  /\ IsSequence(d.tasks)
  /\ IsSequence(d.messages)

(* A run's first read() found JSON text and returned normalize(parsed). *)
ReadParsed(rec) == rec.snap # Nil /\ rec.seen # Nil /\ ParseOk(rec.seen)

Survives(seq) == \A i \in 1..Len(seq) : StringifyValue(seq[i]) = seq[i]

Normalized(rec) ==
  (IF ReadParsed(rec) THEN {rec.snap} ELSE {})
  \cup (IF InWriteCall(rec) THEN {rec.norm} ELSE {})
  \cup (IF rec.posted # Nil /\ rec.posted.type = "state" THEN {rec.posted.payload} ELSE {})

(* C13: whatever the file's JSON text denotes (null, a number, a string, an *)
(* array, an object with fields missing or ill typed, a full document),    *)
(* read() returns normalize's result without taking the catch branch, and  *)
(* every document normalize returned has exactly the four fields, revision *)
(* a number, updatedAt a timestamp, tasks and messages sequences.          *)
C13_NormalizeTotal ==
  \A r \in RunIds :
    LET rec == runs[r] IN
    /\ (rec.seen # Nil /\ ParseOk(rec.seen)) => (~rec.rfail /\ rec.recov = 0)
    /\ \A d \in Normalized(rec) : IsDocument(d)
    /\ vlast # Nil => IsDocument(vlast)

(* A file whose four fields are all present and all ill typed was read as *)
(* the document of the four defaults.                                     *)
C13_Witness ==
  \E r \in RunIds :
    /\ ReadParsed(runs[r])
    /\ Parse(runs[r].seen) = [revision |-> JInfinity, updatedAt |-> Num(0),
                               tasks |-> Str(0), messages |-> JNull]
    /\ runs[r].snap.revision = 1
    /\ runs[r].snap.tasks = <<>>
    /\ runs[r].snap.messages = <<>>

(* What the contract gives for field f of input raw. *)
Kept(raw, f) ==
  IF f = "revision" THEN f \in DOMAIN raw /\ raw[f].ty = "number" /\ "v" \in DOMAIN raw[f]
  ELSE f \in DOMAIN raw /\ raw[f].ty = "array"

(* C14: the document read() returned for JSON text has the input's        *)
(* revision when that is a finite number and 1 otherwise, and the input's *)
(* tasks and messages, element for element, when they are sequences and   *)
(* the empty sequence otherwise; normalizing it again changes nothing,    *)
(* which is what write() does to the document openStateFile passes on.    *)
C14_NormalizePreserves ==
  \A r \in RunIds :
    LET rec == runs[r]
        raw == Parse(rec.seen)
        d == rec.snap
    IN ReadParsed(rec) =>
         /\ d.revision = IF Kept(raw, "revision") THEN raw.revision.v ELSE 1
         /\ d.tasks = IF Kept(raw, "tasks") THEN raw.tasks.v ELSE <<>>
         /\ d.messages = IF Kept(raw, "messages") THEN raw.messages.v ELSE <<>>
         /\ normalize(AsRaw(d), clock) = d
         /\ (rec.op = "open" /\ InWriteCall(rec))
              => [rec.norm EXCEPT !.updatedAt = d.updatedAt] = d

(* A file with revision 3, an ill-typed messages field and a tasks array  *)
(* holding a non-finite number was read: revision and tasks as they were. *)
C14_Witness ==
  \E r \in RunIds :
    /\ ReadParsed(runs[r]) /\ runs[r].op = "open" /\ InWriteCall(runs[r])
    /\ HasField(Parse(runs[r].seen), "messages")
    /\ runs[r].snap.revision = 3
    /\ runs[r].snap.tasks = <<JInfinity, RawTask>>
    /\ runs[r].snap.messages = <<>>

----------------------------------------------------------------------------
(* The workspace binding (SpecRoots) *)

(* In this step an operation ran its binding check as its first statement: *)
(* a command, a watcher event or requestState started, or handleMessage    *)
(* passed a saveState message to saveFromWebview.                          *)
Begins(r) ==
  \/ Free(r) /\ runs'[r] # runs[r] /\ runs'[r].pc # "start"
  \/ runs[r].pc = "start" /\ runs'[r].pc # "start"

(* The operation ended in that same step, having read and written no file *)
(* and asked the operator nothing, with its advisory out.                 *)
Advised(r) ==
  LET rec == runs'[r] IN
  /\ rec.pc = "done" /\ rec.out = "advisory" /\ rec.threw = ""
  /\ rec.sroot = None /\ rec.seen = Nil /\ rec.norm = Nil
  /\ rec.wrote = Nil /\ rec.recov = 0 /\ rec.prompts = 0
  /\ files' = files
  /\ IF rec.op \in {"push", "watch"}
     THEN rec.posted = InfoMsg(NoWorkspaceWarning)
          /\ (viewOpen' => vinfo' = NoWorkspaceWarning)
     ELSE IF rec.op = "save"
     THEN rec.posted = InfoMsg(NoWorkspaceSave) /\ vinfo' = NoWorkspaceSave
     ELSE rec.shown = NoWorkspaceWarning

(* C15: an operation (requestState, saveState, openStateFile,              *)
(* processHumanMessages, seedRoadmap) whose binding check finds no         *)
(* workspace folder ends at once: no file read or written, no prompt, no   *)
(* exception, and an advisory posted to the view or shown as a warning.    *)
C15_UnboundAdvises ==
  [][\A r \in RunIds : (folder = None /\ Begins(r)) => Advised(r)]_vars

(* A seedRoadmap with no folder open ended with the warning and no prompt. *)
C15_Witness ==
  \E r \in RunIds :
    /\ folder = None
    /\ runs[r].op = "seed" /\ runs[r].out = "advisory"
    /\ runs[r].shown = NoWorkspaceWarning /\ runs[r].prompts = 0

(* C16: a saveState message without payload ends with an info message to  *)
(* the view; write() is not called, the file is not written and no state  *)
(* message is posted.                                                     *)
C16_NoPayloadRejected ==
  \A r \in RunIds :
    LET rec == runs[r] IN
    (rec.op = "save" /\ rec.doc = Nil /\ rec.pc # "start") =>
      /\ rec.pc = "done" /\ rec.out \in {"invalid", "advisory"}
      /\ rec.norm = Nil /\ rec.wrote = Nil /\ rec.pre = Nil /\ rec.threw = ""
      /\ rec.posted \in {InfoMsg(InvalidPayload), InfoMsg(NoWorkspaceSave)}
      /\ vinfo = rec.posted.message

(* The payload-less save was answered with the invalid-payload advisory. *)
C16_Witness ==
  \E r \in RunIds :
    /\ runs[r].op = "save" /\ runs[r].doc = Nil /\ runs[r].out = "invalid"
    /\ vinfo = InvalidPayload

(* In this step an operation ran a binding check: at its start, or at the *)
(* pushState that processHumanMessages and seedRoadmap call after their   *)
(* write.                                                                 *)
Checks(r) ==
  \/ Begins(r)
  \/ /\ runs[r].pc = "write" /\ runs[r].op \in {"phm", "seed"}
     /\ runs'[r].pc # "write" /\ runs'[r].threw = ""

Bound ==
  /\ store = folder
  /\ watcher = folder
  /\ live = IF folder = None THEN {} ELSE {folder}

(* C17: after every binding check the controller holds a store exactly    *)
(* when a folder is open, the store and this.watcher are those of the     *)
(* current first folder, and the watchers not disposed are that one alone. *)
C17_BindingFollowsFolder ==
  [][(\E r \in RunIds : Checks(r)) => Bound']_vars

(* Bound to r2 after the store had recreated the file of r1. *)
C17_Witness ==
  /\ folder = "r2" /\ store = "r2" /\ watcher = "r2" /\ live = {"r2"}
  /\ ParseOk(files["r1"]) /\ FileRevision(files["r1"]) = 1

----------------------------------------------------------------------------
(* seedRoadmap *)

(* C19: the file a confirmed seedRoadmap wrote holds the seed document of  *)
(* the time of the confirmation: the seed tasks, the seed message and      *)
(* revision 1, and nothing of what the file held before.                   *)
C19_SeedReplaces ==
  \A r \in RunIds :
    LET rec == runs[r] IN
    (rec.op = "seed" /\ rec.wrote # Nil) =>
      /\ \E t \in 0..rec.at :
           /\ Stored(rec.wrote).tasks = defaultState(t).tasks
           /\ Stored(rec.wrote).messages = defaultState(t).messages
      /\ Stored(rec.wrote).revision = 1
      /\ Stored(rec.wrote).updatedAt = rec.at
      /\ Len(Stored(rec.wrote).tasks) = 5
      /\ Len(Stored(rec.wrote).messages) = 1

(* The seed replaced a document of revision 3 with three messages. *)
C19_Witness ==
  \E r \in RunIds :
    /\ runs[r].op = "seed" /\ runs[r].wrote # Nil /\ runs[r].out = "ok"
    /\ runs[r].pre = Encode(ExtDocFull)
    /\ files["r1"] = runs[r].wrote

(* C20: a seedRoadmap whose confirmation was dismissed has called neither *)
(* write() nor pushState: no file written, no message posted, nothing     *)
(* shown.                                                                 *)
C20_DismissedSeedNoEffect ==
  \A r \in RunIds :
    LET rec == runs[r] IN
    (rec.op = "seed" /\ rec.abandoned) =>
      /\ rec.pc = "done" /\ rec.out = "cancelled"
      /\ rec.norm = Nil /\ rec.wrote = Nil /\ rec.pre = Nil /\ rec.recov = 0
      /\ rec.posted = Nil /\ rec.shown = ""
      /\ rec.prompts = 1

(* Dismissed over the external document, which the file still holds. *)
C20_Witness ==
  \E r \in RunIds :
    /\ runs[r].op = "seed" /\ runs[r].abandoned /\ runs[r].out = "cancelled"
    /\ files["r1"] = Encode(ExtDocFull)

----------------------------------------------------------------------------
(* The watcher (SpecLive) *)

(* A run started by a watcher event has posted a state message. *)
Pushed ==
  \E r \in RunIds :
    /\ runs[r].op = "watch" /\ runs[r].pc = "done" /\ runs[r].out = "ok"
    /\ runs[r].posted # Nil /\ runs[r].posted.type = "state"

(* The last state message the view received is what a reader of the file *)
(* gets.                                                                 *)
InSync ==
  viewOpen =>
    /\ ParseOk(files[folder])
    /\ \E t \in 0..MaxClock : vlast = normalize(Parse(files[folder]), t)

----------------------------------------------------------------------------
(* The seed content *)

(* The seed documents the program has written: read()'s recovery and a *)
(* confirmed seedRoadmap.                                              *)
SeedsWritten ==
  {Stored(runs[r].rwrote) : r \in {q \in RunIds : runs[q].rwrote # Nil}}
  \cup {Stored(runs[r].wrote) :
          r \in {q \in RunIds : runs[q].op = "seed" /\ runs[q].wrote # Nil}}

----------------------------------------------------------------------------
(* The task controls of the dashboard *)

Clicked(r, act) == runs[r].click # Nil /\ runs[r].click.act = act

(* The task a click was on, as the handler found it and as it left it. *)
TaskOf(tasks, id) == tasks[FindTask(tasks, id)]
TaskBefore(c) == TaskOf(c.before, c.id)
TaskAfter(r) == TaskOf(runs[r].snap.tasks, runs[r].click.id)

Rank(lane) == IF lane = "todo" THEN 1 ELSE IF lane = "progress" THEN 2 ELSE 3

IsDone(task) == task.lane = "done" /\ task.status = "done"

(* C22: an advance never lowers a task's lane in todo < progress < done: *)
(* from todo it gives progress, from progress it gives done/done, and    *)
(* from done it leaves done/done; so todo advanced twice is done/done    *)
(* and stays there under every further advance.                          *)
C22_AdvanceNeverRegresses ==
  /\ \A r \in RunIds :
       Clicked(r, "advance") =>
         LET b == TaskBefore(runs[r].click)
             a == TaskAfter(r)
         IN /\ Rank(a.lane) >= Rank(b.lane)
            /\ b.lane = "todo" => a.lane = "progress"
            /\ b.lane = "progress" => IsDone(a)
            /\ b.lane = "done" => IsDone(a)
            /\ LET c == runs[r].click.prev
               IN (/\ c # Nil /\ c.act = "advance" /\ c.id = runs[r].click.id
                   /\ TaskBefore(c).lane = "todo") => IsDone(a)
  /\ \A i \in 1..Len(vstate.tasks) :
       LET t == vstate.tasks[i]
       IN t.lane = "todo" =>
            /\ IsDone(advance(advance(t)))
            /\ IsDone(advance(advance(advance(t))))

(* A seeded todo task was advanced twice to done/done and then advanced *)
(* a third time.                                                        *)
C22_Witness ==
  \E r \in RunIds :
    /\ Clicked(r, "advance")
    /\ IsDone(TaskBefore(runs[r].click))
    /\ IsDone(TaskAfter(r))
    /\ LET c == runs[r].click.prev
       IN /\ c # Nil /\ c.act = "advance" /\ c.id = runs[r].click.id
          /\ TaskBefore(c).lane = "progress"
          /\ c.prev # Nil /\ c.prev.act = "advance" /\ c.prev.id = c.id
          /\ TaskBefore(c.prev).lane = "todo"
          /\ TaskBefore(c.prev).status = "todo"

(* The second of two toggles in a row of the same task, the first made *)
(* when the task's status was its lane `lane`.                          *)
SecondToggle(r, lane) ==
  /\ Clicked(r, "block")
  /\ LET c == runs[r].click.prev
     IN /\ c # Nil /\ c.act = "block" /\ c.id = runs[r].click.id
        /\ TaskBefore(c).lane = lane
        /\ TaskBefore(c).status = lane

(* C23 as stated: for a task in any lane whose status is its lane, the *)
(* first toggle gives status blocked, the second gives back the lane's *)
(* status, and neither changes the lane.                               *)
C23_ToggleRestoresLaneStatus ==
  \A r \in RunIds : \A lane \in Lanes :
    SecondToggle(r, lane) =>
      /\ TaskBefore(runs[r].click).status = "blocked"
      /\ TaskBefore(runs[r].click).lane = lane
      /\ TaskAfter(r).lane = lane
      /\ TaskAfter(r).status = lane

(* What holds of the lanes progress and done. *)
C23_ToggleRestoresUnlessTodo ==
  \A r \in RunIds : \A lane \in Lanes :
    SecondToggle(r, lane) =>
      /\ TaskBefore(runs[r].click).status = "blocked"
      /\ TaskBefore(runs[r].click).lane = lane
      /\ TaskAfter(r).lane = lane
      /\ TaskAfter(r).status = IF lane = "todo" THEN "progress" ELSE lane

C23_SecondToggleInProgress == \E r \in RunIds : SecondToggle(r, "progress")
C23_SecondToggleInDone == \E r \in RunIds : SecondToggle(r, "done")
C23_SecondToggleInTodo == \E r \in RunIds : SecondToggle(r, "todo")

(* The documents the board holds or has handed on: the view's copy, the *)
(* payloads of the saves, and the files.                                *)
BoardDocuments ==
  {vstate}
  \cup {runs[r].doc : r \in {q \in RunIds : runs[q].op = "save" /\ runs[q].doc # Nil}}
  \cup {Stored(files[rt]) : rt \in {q \in Roots : files[q].kind = "json"}}

(* C24: under the task controls, from the seed or an empty document, *)
(* every task with status done is in lane done.                      *)
C24_DoneStatusInDoneLane ==
  \A d \in BoardDocuments : \A i \in 1..Len(d.tasks) :
    d.tasks[i].status = "done" => d.tasks[i].lane = "done"

(* A task that reached done/done was blocked and unblocked, and the file *)
(* holds it with status done.                                            *)
C24_Witness ==
  /\ \E r \in RunIds : SecondToggle(r, "done") /\ runs[r].out = "ok"
  /\ files["r1"].kind = "json"
  /\ \E i \in 1..Len(Stored(files["r1"]).tasks) :
       Stored(files["r1"]).tasks[i].status = "done"

----------------------------------------------------------------------------
(* Last write wins *)

(* A save stored its payload: the file content it wrote is the payload *)
(* with the store's stamp, whatever the file held.                     *)
SaveStored(rec) ==
  /\ rec.wrote = Encode(Stamp(rec.doc, rec.at))
  /\ Stored(rec.wrote).revision = rec.doc.revision
  /\ Stored(rec.wrote).tasks = rec.doc.tasks
  /\ Stored(rec.wrote).messages = rec.doc.messages
  /\ rec.out = "ok"
  /\ rec.posted = StateMsg(Stored(rec.wrote))

(* The payload of the save was not ahead of the document in the file. *)
StaleSave(rec) ==
  /\ rec.op = "save" /\ rec.wrote # Nil
  /\ ParseOk(rec.pre)
  /\ rec.doc.revision <= FileRevision(rec.pre)

(* The step completes the writeFile of run r. *)
CompletesWrite(r) ==
  /\ InWrite(r)
  /\ \/ runs[r].pc = "write" /\ runs'[r].wrote # Nil
     \/ runs[r].pc = "rwrite" /\ runs'[r].recov = runs[r].recov + 1

(* C25: the store checks no revision.  A save whose payload revision is  *)
(* not above the file's succeeds and the file then holds the payload and *)
(* nothing of what it held; every completed write leaves the file equal  *)
(* to the document of that write, and nothing but a completed write or   *)
(* the external writer changes a file.                                   *)
C25_LastWriteWins ==
  /\ [](\A r \in RunIds :
          (runs[r].op = "save" /\ runs[r].wrote # Nil) => SaveStored(runs[r]))
  /\ [][/\ \A r \in RunIds :
            CompletesWrite(r) =>
              /\ files'[runs[r].sroot] = Encode(runs[r].norm)
              /\ runs[r].pc = "write" => runs'[r].wrote = files'[runs[r].sroot]
        /\ \A rt \in Roots :
            files'[rt] # files[rt] =>
              \/ extLeft' # extLeft
              \/ \E r \in RunIds : CompletesWrite(r) /\ runs[r].sroot = rt]_vars

(* The view held the seed, an external writer then stored a document of *)
(* revision 3 with other messages, and a save of revision 2 replaced it. *)
C25_Witness ==
  \E r \in RunIds :
    /\ StaleSave(runs[r])
    /\ runs[r].out = "ok"
    /\ Stored(runs[r].pre).messages # runs[r].doc.messages
    /\ Stored(runs[r].pre).tasks # runs[r].doc.tasks
    /\ files["r1"] = runs[r].wrote
    /\ Stored(files["r1"]).messages = runs[r].doc.messages

----------------------------------------------------------------------------
(* Recovery writes against saves *)

(* The step completes the recovery write of run r. *)
CompletesRecovery(r) == CompletesWrite(r) /\ runs[r].pc = "rwrite"

(* The file of root rt holds the document a completed save stored. *)
HoldsSave(rt) ==
  \E q \in RunIds :
    /\ runs[q].op = "save" /\ runs[q].out = "ok"
    /\ runs[q].sroot = rt
    /\ runs[q].wrote = files[rt]

(* C26 as stated: no recovery write of a read replaces the document that *)
(* a completed save stored in the file.                                  *)
C26_SaveNotReseeded ==
  [][\A r \in RunIds :
       CompletesRecovery(r) => ~HoldsSave(runs[r].sroot)]_vars

----------------------------------------------------------------------------
(* processHumanMessages across a change of the bound root *)

(* The run is in its own write() call (not a recovery write of a read). *)
InOwnWrite(rec) == rec.pc \in {"mkdir", "write"}

(* The run's call of this.store.write threw: this.store was undefined. *)
WriteCallThrew(rec) == rec.out = "failed" /\ rec.threw = "call"

(* C27 as stated: a processHumanMessages run writes to the file of the *)
(* root whose store it read its snapshot from, and its call of write   *)
(* does not fail, whatever happens to the binding while it waits at a  *)
(* prompt.                                                             *)
C27_WritesWhereItRead ==
  \A r \in RunIds :
    runs[r].op = "phm" =>
      /\ InOwnWrite(runs[r]) => runs[r].sroot = runs[r].rroot
      /\ ~WriteCallThrew(runs[r])

(* The two ways C27 fails, apart. *)
C27_NeverWritesOtherRoot ==
  \A r \in RunIds :
    (runs[r].op = "phm" /\ InOwnWrite(runs[r])) => runs[r].sroot = runs[r].rroot

C27_WriteCallNeverThrows ==
  \A r \in RunIds : runs[r].op = "phm" => ~WriteCallThrew(runs[r])

----------------------------------------------------------------------------
(* The watcher's refresh writes nothing *)

(* What a run started by a watcher event has written: nothing of its own, *)
(* and at most one recovery write, made after its read found the file     *)
(* missing or malformed.                                                  *)
WatchWrites(rec) ==
  /\ rec.wrote = Nil
  /\ ~InOwnWrite(rec)
  /\ rec.recov <= 1
  /\ (rec.recov > 0 \/ rec.pc \in {"rmkdir", "rwrite"}) =>
       rec.rseen # Nil /\ ~ParseOk(rec.rseen)
  /\ rec.rwrote # Nil => rec.recov = 1

(* The step is the completed readFile of a watcher run on a valid file. *)
WatchReadsValid(r) ==
  /\ runs[r].op = "watch" /\ runs[r].pc = "read"
  /\ ParseOk(files[runs[r].sroot])
  /\ runs'[r] # runs[r]

(* No event is queued and no write() call is in flight. *)
Quiescent == ~notified /\ \A r \in RunIds : ~InWriteCall(runs[r])

(* C28: a watcher refresh that finds a valid file ends at once, posting   *)
(* the state, changing no file and queueing no event; a watcher run       *)
(* writes only as the recovery of a failed read, at most once; and after  *)
(* the finitely many external changes and UI operations the system stays  *)
(* quiescent: no event queued, no write in flight.                        *)
C28_RefreshWritesNothing ==
  /\ [](\A r \in RunIds : runs[r].op = "watch" => WatchWrites(runs[r]))
  /\ [][\A r \in RunIds :
          WatchReadsValid(r) =>
            /\ runs'[r].pc = "done" /\ runs'[r].out = "ok"
            /\ runs'[r].recov = 0
            /\ files' = files
            /\ notified' = notified]_vars
  /\ <>[]Quiescent

(* The store recreated a missing file; the event its own write raised was *)
(* delivered, and the refresh read the seed, posted it and wrote nothing: *)
(* nothing is queued and every run has ended.                             *)
C28_Witness ==
  /\ ~notified
  /\ \A r \in RunIds : runs[r].pc = "done"
  /\ \E r \in RunIds :
       /\ runs[r].op = "watch" /\ runs[r].out = "ok"
       /\ runs[r].recov = 0 /\ runs[r].wrote = Nil
       /\ runs[r].posted # Nil /\ runs[r].posted.type = "state"
       /\ Len(runs[r].posted.payload.tasks) = 5
       /\ files[runs[r].sroot] = Encode(runs[r].posted.payload)
====
